---- MODULE Spec2Model ----
(***************************************************************************)
(* Model of voxseg's feature script (voxseg/extract_feats.py: extract,     *)
(* normalize) and label script (src/prep_labels.py: get_labels, one_hot).  *)
(*                                                                         *)
(* Times are counted in hundredths of a second, so frame_length = 0.32 is  *)
(* 32 and the 0.01 s pad is 1; (frame_length + 0.01) * rate is the         *)
(* rational (frame_length + 1) * rate / PadDen and int() truncates it      *)
(* toward zero.  Real numbers produced by normalize are kept exactly:      *)
(* a mean is a reduced fraction, a standard deviation the square root of   *)
(* a reduced fraction, a z-score a signed square root of one, or NaN/Inf.  *)
(***************************************************************************)
EXTENDS Integers, Sequences, FiniteSets, TLC

\* ------------------------------------------------------------------ bounds
MaxRows == 2
MaxSigLen == 5

\* 0.01 s written as 1 / PadDen
PadDen == 100

\* ------------------------------------------------------------- the inputs
\* label strings as sequences of character codes
speech == <<115, 112, 101, 101, 99, 104>>
non_speech == <<110, 111, 110, 95, 115, 112, 101, 101, 99, 104>>
LabelStrings == {speech, non_speech}

\* the recording-ids, in sorted order
RecOrder == <<"rec_00", "rec_01">>

DefaultConfig == [frame_length |-> 32, rate |-> 16000]
Configs == {DefaultConfig, [frame_length |-> 1, rate |-> 100], [frame_length |-> 2, rate |-> 50]}
NFilts == {2}

\* signal lengths (samples): 0.30 s, one stride past the bound, three frames, 5.00 s
DefaultLens == {4800, 10401, 20641, 80000}
SigLens(cfg) == IF cfg = DefaultConfig THEN DefaultLens ELSE 3..MaxSigLen
SetMax(S) == CHOOSE x \in S : \A y \in S : y <= x
\* a signal is its length and its waveform: 0 is constant, 1 is a ramp of period 7
Signals(cfg) ==
    {[len |-> l, pat |-> 1] : l \in SigLens(cfg)}
        \cup (IF cfg = DefaultConfig THEN {} ELSE {[len |-> SetMax(SigLens(cfg)), pat |-> 0]})
Sample(sig, i) == IF sig.pat = 0 THEN 1 ELSE i % 7

\* --------------------------------------------------------------- helpers
None == [none |-> TRUE]
Some(v) == [none |-> FALSE, val |-> v]

DropColumns(row, cols) == [f \in (DOMAIN row) \ cols |-> row[f]]
WithColumn(row, col, v) == [f \in (DOMAIN row) \cup {col} |-> IF f = col THEN v ELSE row[f]]

\* the concatenation of ss[lo..hi], and of all of ss (halving keeps the recursion shallow)
RECURSIVE FlattenRange(_, _, _)
FlattenRange(ss, lo, hi) ==
    IF lo > hi THEN <<>>
    ELSE IF lo = hi THEN ss[lo]
    ELSE LET mid == (lo + hi) \div 2
         IN  FlattenRange(ss, lo, mid) \o FlattenRange(ss, mid + 1, hi)
Flatten(ss) == FlattenRange(ss, 1, Len(ss))

RECURSIVE SumRange(_, _, _)
SumRange(s, lo, hi) ==
    IF lo > hi THEN 0
    ELSE IF lo = hi THEN s[lo]
    ELSE LET mid == (lo + hi) \div 2
         IN  SumRange(s, lo, mid) + SumRange(s, mid + 1, hi)
SeqSum(s) == SumRange(s, 1, Len(s))

Reverse(s) == [i \in 1..Len(s) |-> s[Len(s) + 1 - i]]

\* int() of the rational a / b, b > 0: truncation toward zero
TruncDiv(a, b) == IF a >= 0 THEN a \div b ELSE -((-a) \div b)

\* ------------------------------------------------------- exact arithmetic
Abs(x) == IF x < 0 THEN -x ELSE x
RECURSIVE Gcd(_, _)
Gcd(a, b) == IF b = 0 THEN a ELSE Gcd(b, a % b)
Rat(n, d) ==
    LET g == Gcd(Abs(n), Abs(d))
        s == IF d < 0 THEN -1 ELSE 1
    IN  [num |-> (s * n) \div g, den |-> (s * d) \div g]
RSub(p, q) == Rat(p.num * q.den - q.num * p.den, p.den * q.den)
RMul(p, q) == Rat(p.num * q.num, p.den * q.den)
RAdd(p, q) == Rat(p.num * q.den + q.num * p.den, p.den * q.den)
RInt(i) == [num |-> i, den |-> 1]
\* the square root of the fraction v >= 0
Sqrt(v) == [sqrt |-> v]
NaN == [nan |-> TRUE]
Inf(s) == [inf |-> s]
\* variant: a zero standard deviation coerced to a z-score of 0
DivBySqrtCoerced(q, v) ==
    IF v.num = 0
    THEN [sgn |-> 0, sq |-> Rat(0, 1)]
    ELSE [sgn |-> IF q.num > 0 THEN 1 ELSE IF q.num < 0 THEN -1 ELSE 0,
          sq |-> Rat(q.num * q.num * v.den, q.den * q.den * v.num)]
\* the float quotient q / sqrt(v): numpy divides by zero without raising
DivBySqrt(q, v) ==
    IF v.num = 0
    THEN IF q.num = 0 THEN NaN ELSE Inf(IF q.num > 0 THEN 1 ELSE -1)
    ELSE [sgn |-> IF q.num > 0 THEN 1 ELSE IF q.num < 0 THEN -1 ELSE 0,
          sq |-> Rat(q.num * q.num * v.den, q.den * q.den * v.num)]
IsFinite(z) == "sgn" \in DOMAIN z

\* ---------------------------------------------------------------- framing
\* variants: the pad left out of the stop; the "- 1" left out of the stop
FrameStopNoPad(siglen, frame_length, rate) == siglen - 1
FrameStopOffByOne(siglen, frame_length, rate) ==
    TruncDiv(siglen * PadDen - (frame_length + 1) * rate, PadDen)
\* int(len(sig)-1 - (frame_length+0.01) * rate)
FrameStop(siglen, frame_length, rate) ==
    TruncDiv((siglen - 1) * PadDen - (frame_length + 1) * rate, PadDen)
\* variant: the stride taken as the padded frame length
FrameStepPadded(frame_length, rate) == TruncDiv((frame_length + 1) * rate, PadDen)
\* int(frame_length * rate)
FrameStep(frame_length, rate) == TruncDiv(frame_length * rate, PadDen)
\* range(start, stop, step) for step > 0, in iteration order
RECURSIVE PyRange(_, _, _)
PyRange(start, stop, step) ==
    IF start < stop THEN <<start>> \o PyRange(start + step, stop, step) ELSE <<>>
\* int(j + (frame_length+0.01) * rate)
SliceEnd(j, frame_length, rate) == TruncDiv(j * PadDen + (frame_length + 1) * rate, PadDen)
\* sig[lo:hi], clipped to the signal as a Python slice is
PySlice(sig, lo, hi) ==
    LET Clip(x) == IF x < 0 THEN 0 ELSE IF x > sig.len THEN sig.len ELSE x
    IN  [sig |-> sig, lo |-> Clip(lo), hi |-> IF Clip(hi) < Clip(lo) THEN Clip(lo) ELSE Clip(hi)]
SliceLen(sl) == sl.hi - sl.lo

\* ------------------------------------------------------------------ state
VARIABLES
    dir,            \* the data directory as utils.process_data_dir / read_sigs give it
    frame_length,   \* hundredths of a second
    rate,           \* samples per second
    nfilt,          \* number of filterbanks
    pcF,            \* position of the feature script (extract_feats.py __main__)
    dataF,          \* its prep_data() table
    feats,          \* the table extract() returns
    normed,         \* the table normalize() returns
    outF,           \* what the feature script printed
    featSlices,     \* per input row, the slices _calculate_feats analysed
    pcL,            \* position of the label script (prep_labels.py __main__)
    dataL,          \* its prep_data() table (get_labels adds a column in place)
    labels,         \* the table get_labels() returns
    encoded,        \* that table with its labels column one-hot encoded
    labelOffsets,   \* per input row, the offsets _generate_label_sequence iterated
    outL            \* what the label script printed

vars == <<dir, frame_length, rate, nfilt, pcF, dataF, feats, normed, outF, featSlices,
          pcL, dataL, labels, encoded, labelOffsets, outL>>
varsF == <<pcF, dataF, feats, normed, outF, featSlices>>
varsL == <<pcL, dataL, labels, encoded, labelOffsets, outL>>
config == <<dir, frame_length, rate, nfilt>>

UttNames == <<"utt_00", "utt_01", "utt_02", "utt_03">>

\* the id a row is named by in diagnostics and progress bars
RowId(row) ==
    IF "utterance-id" \in DOMAIN row THEN row["utterance-id"] ELSE row["recording-id"]

\* data.dropna(): the rows with no null cell ('features' and 'labels' are the nullable columns)
DropNa(table) ==
    SelectSeq(table, LAMBDA r : \A f \in (DOMAIN r) \cap {"features", "labels"} : ~r[f].none)

\* ---------------------------------------------------- feature extraction
\* logfbank(slice, rate, nfilt): a (time-steps x nfilt) matrix of filterbank energies;
\* one time step, filter k reading the slice k-1 samples in from either end
Energy(sl, k) ==
    IF SliceLen(sl) = 0 THEN 0
    ELSE LET d == (k - 1) % SliceLen(sl)
         IN  Sample(sl.sig, sl.lo + d) + Sample(sl.sig, sl.hi - 1 - d)
LogFbank(sl, r, nf) == <<[k \in 1..nf |-> Energy(sl, k)]>>
Transpose(m) == [k \in 1..Len(m[1]) |-> [t \in 1..Len(m) |-> m[t][k]]]
FlipUd(m) == Reverse(m)

\* variant: the loop runs to the stop inclusive
CalculateFeatsExtraFrame(row, fl, nf, r) ==
    LET sig == row["signal"]
        rng == PyRange(0, FrameStop(sig.len, fl, r) + 1, FrameStep(fl, r))
        sl(j) == PySlice(sig, j, SliceEnd(j, fl, r))
    IN  IF Len(rng) > 0
        THEN [value |-> Some([n \in 1..Len(rng) |-> FlipUd(Transpose(LogFbank(sl(rng[n]), r, nf)))]),
              printed |-> <<>>,
              slices |-> [n \in 1..Len(rng) |->
                             [offset |-> rng[n], end |-> SliceEnd(rng[n], fl, r), slice |-> sl(rng[n])]]]
        ELSE [value |-> None,
              printed |-> <<[msg |-> "too short to extract features", id |-> RowId(row)]>>,
              slices |-> <<>>]
\* _calculate_feats: the features of a row (or None and a warning), with the slices analysed
CalculateFeats(row, fl, nf, r) ==
    LET sig == row["signal"]
        rng == PyRange(0, FrameStop(sig.len, fl, r), FrameStep(fl, r))
        sl(j) == PySlice(sig, j, SliceEnd(j, fl, r))
    IN  IF Len(rng) > 0
        THEN [value |-> Some([n \in 1..Len(rng) |-> FlipUd(Transpose(LogFbank(sl(rng[n]), r, nf)))]),
              printed |-> <<>>,
              slices |-> [n \in 1..Len(rng) |->
                             [offset |-> rng[n], end |-> SliceEnd(rng[n], fl, r), slice |-> sl(rng[n])]]]
        ELSE [value |-> None,
              printed |-> <<[msg |-> "too short to extract features", id |-> RowId(row)]>>,
              slices |-> <<>>]

\* prep_data of extract_feats.py: wav.scp joined with segments when there are any
PrepDataFeats(d) ==
    [i \in 1..Len(d.table) |-> DropColumns(d.table[i], {"label"})]

FeatsPrepData ==
    /\ pcF = "start"
    /\ dataF' = PrepDataFeats(dir)
    /\ outF' = IF dir.segments THEN outF
               ELSE Append(outF, [msg |-> "Segments file not found", id |-> "WARNING"])
    /\ pcF' = "prepared"
    /\ UNCHANGED <<feats, normed, featSlices>>
    /\ UNCHANGED varsL
    /\ UNCHANGED config

\* variant: one short row empties the whole table
ExtractAbortOnShort ==
    /\ pcF = "prepared"
    /\ LET res == [i \in 1..Len(dataF) |-> CalculateFeats(dataF[i], frame_length, nfilt, rate)]
           tab == [i \in 1..Len(dataF) |->
                      DropColumns(WithColumn(dataF[i], "features", res[i].value), {"signal"})]
       IN  /\ feats' = IF \E i \in 1..Len(tab) : tab[i]["features"].none THEN <<>> ELSE tab
           /\ outF' = outF \o <<[msg |-> "Extracting features", id |-> "banner"]>>
                          \o Flatten([i \in 1..Len(dataF) |-> res[i].printed])
           /\ featSlices' = [i \in 1..Len(dataF) |-> res[i].slices]
    /\ pcF' = "extracted"
    /\ UNCHANGED <<dataF, normed>>
    /\ UNCHANGED varsL
    /\ UNCHANGED config
\* extract(): apply _calculate_feats to every row, drop 'signal', drop the null rows
Extract ==
    /\ pcF = "prepared"
    /\ LET res == [i \in 1..Len(dataF) |-> CalculateFeats(dataF[i], frame_length, nfilt, rate)]
           tab == [i \in 1..Len(dataF) |->
                      DropColumns(WithColumn(dataF[i], "features", res[i].value), {"signal"})]
       IN  /\ feats' = DropNa(tab)
           /\ outF' = outF \o <<[msg |-> "Extracting features", id |-> "banner"]>>
                          \o Flatten([i \in 1..Len(dataF) |-> res[i].printed])
           /\ featSlices' = [i \in 1..Len(dataF) |-> res[i].slices]
    /\ pcF' = "extracted"
    /\ UNCHANGED <<dataF, normed>>
    /\ UNCHANGED varsL
    /\ UNCHANGED config

\* ---------------------------------------------------------- normalization
\* every value of every matrix of a sequence of matrices
MatValues(frames) == Flatten(Flatten(frames))

\* the sum of abs(x - mean)**2 over xs[lo..hi]
RECURSIVE SumSqDev(_, _, _, _)
SumSqDev(xs, mean, lo, hi) ==
    IF lo > hi THEN RInt(0)
    ELSE IF lo = hi THEN LET dx == RSub(RInt(xs[lo]), mean) IN RMul(dx, dx)
    ELSE LET mid == (lo + hi) \div 2
         IN  RAdd(SumSqDev(xs, mean, lo, mid), SumSqDev(xs, mean, mid + 1, hi))

\* np.mean / np.std of np.vstack(group): group is the 'features' cells of one recording
GetMeanStd(group) ==
    LET xs == MatValues(Flatten(group))
        mean == Rat(SeqSum(xs), Len(xs))
    IN  [mean |-> mean, std |-> Sqrt(RMul(SumSqDev(xs, mean, 1, Len(xs)), Rat(1, Len(xs))))]

\* data['features'].groupby(data['recording-id']).apply(_get_mean_std), index reset:
\* one row per recording-id that occurs, in sorted key order
GroupMeanStd(table) ==
    LET keys == SelectSeq(RecOrder, LAMBDA k : \E i \in 1..Len(table) : table[i]["recording-id"] = k)
        cells(k) == LET rows == SelectSeq(table, LAMBDA r : r["recording-id"] = k)
                    IN  [i \in 1..Len(rows) |-> rows[i]["features"].val]
    IN  [g \in 1..Len(keys) |->
            LET ms == GetMeanStd(cells(keys[g]))
            IN  [x \in {"recording-id", "mean", "std"} |->
                    IF x = "recording-id" THEN keys[g] ELSE ms[x]]]

\* variant: every row given the statistics of the first group
MergeMeanStdFirstGroup(table, mean_std) ==
    [i \in 1..Len(table) |->
        WithColumn(WithColumn(table[i], "mean", mean_std[1]["mean"]), "std", mean_std[1]["std"])]
\* data.merge(mean_std, on='recording-id'): rows keep their order ('recording-id' is
\* a column of mean_std, the group key being the named Series data['recording-id'])
MergeMeanStd(table, mean_std) ==
    [i \in 1..Len(table) |->
        LET g == CHOOSE g \in 1..Len(mean_std) :
                     mean_std[g]["recording-id"] = table[i]["recording-id"]
        IN  WithColumn(WithColumn(table[i], "mean", mean_std[g]["mean"]), "std", mean_std[g]["std"])]

\* (i - row['mean']) / row['std'] for every matrix i, element-wise
CalculateNorm(row) ==
    LET fs == row["features"].val
    IN  [n \in 1..Len(fs) |-> [k \in 1..Len(fs[n]) |-> [t \in 1..Len(fs[n][k]) |->
            DivBySqrt(RSub(RInt(fs[n][k][t]), row["mean"]), row["std"].sqrt)]]]

\* normalize(): group statistics, merge, z-score every row, drop the working columns
Normalize ==
    /\ pcF = "extracted"
    /\ feats # <<>>
    /\ LET merged == MergeMeanStd(feats, GroupMeanStd(feats))
       IN  normed' = [i \in 1..Len(merged) |->
                         DropColumns(WithColumn(merged[i], "normalized-features", CalculateNorm(merged[i])),
                                     {"features", "mean", "std"})]
    /\ outF' = Append(outF, [msg |-> "Normalizing features", id |-> "banner"])
    /\ pcF' = "done"
    /\ UNCHANGED <<dataF, feats, featSlices>>
    /\ UNCHANGED varsL
    /\ UNCHANGED config

\* with no row left the grouped table has no 'level_1' to drop: pandas raises, or
\* (version-dependent) hands back an empty table
NormalizeEmpty ==
    /\ pcF = "extracted"
    /\ feats = <<>>
    /\ \/ /\ pcF' = "KeyError"
          /\ UNCHANGED <<normed, outF>>
       \/ /\ pcF' = "done"
          /\ normed' = <<>>
          /\ outF' = Append(outF, [msg |-> "Normalizing features", id |-> "banner"])
    /\ UNCHANGED <<dataF, feats, featSlices>>
    /\ UNCHANGED varsL
    /\ UNCHANGED config

\* ------------------------------------------------------------ label script
\* prep_data of prep_labels.py: needs 'segments' and 'utt2spk'
LabelsPrepData ==
    /\ pcL = "start"
    /\ IF dir.segments
       THEN /\ dataL' = dir.table
            /\ pcL' = "prepared"
       ELSE /\ dataL' = dataL
            /\ pcL' = "AssertionError"
    /\ UNCHANGED <<labels, encoded, labelOffsets, outL>>
    /\ UNCHANGED varsF
    /\ UNCHANGED config

\* variant: no assert, a frameless row gets an empty label array
GenerateLabelSequenceNoAssert(row, fl, r) ==
    LET sig == row["signal"]
        rng == PyRange(0, FrameStop(sig.len, fl, r), FrameStep(fl, r))
    IN  [value |-> Some([n \in 1..Len(rng) |-> row["label"]]), offsets |-> rng]
\* _generate_label_sequence: the labels of a row (or None, silently), with the offsets iterated
GenerateLabelSequence(row, fl, r) ==
    LET sig == row["signal"]
        rng == PyRange(0, FrameStop(sig.len, fl, r), FrameStep(fl, r))
    IN  IF Len(rng) > 0
        THEN [value |-> Some([n \in 1..Len(rng) |-> row["label"]]), offsets |-> rng]
        ELSE [value |-> None, offsets |-> <<>>]

\* get_labels(): adds 'labels' to the caller's table, then drops 'signal', 'label' and the null rows
GetLabels ==
    /\ pcL = "prepared"
    /\ LET res == [i \in 1..Len(dataL) |-> GenerateLabelSequence(dataL[i], frame_length, rate)]
           tab == [i \in 1..Len(dataL) |-> WithColumn(dataL[i], "labels", res[i].value)]
       IN  /\ dataL' = tab
           /\ labels' = DropNa([i \in 1..Len(tab) |-> DropColumns(tab[i], {"signal", "label"})])
           /\ labelOffsets' = [i \in 1..Len(dataL) |-> res[i].offsets]
    /\ pcL' = "labelled"
    /\ UNCHANGED <<encoded, outL>>
    /\ UNCHANGED varsF
    /\ UNCHANGED config

\* lexicographic order of two strings by character code
RECURSIVE StrLess(_, _)
StrLess(a, b) ==
    IF b = <<>> THEN FALSE
    ELSE IF a = <<>> THEN TRUE
    ELSE IF Head(a) # Head(b) THEN Head(a) < Head(b)
    ELSE StrLess(Tail(a), Tail(b))

RECURSIVE InsertSorted(_, _)
InsertSorted(x, s) ==
    IF s = <<>> THEN <<x>>
    ELSE IF x = Head(s) THEN s
    ELSE IF StrLess(x, Head(s)) THEN <<x>> \o s
    ELSE <<Head(s)>> \o InsertSorted(x, Tail(s))

RECURSIVE MergeUnique(_, _)
MergeUnique(a, b) == IF a = <<>> THEN b ELSE InsertSorted(Head(a), MergeUnique(Tail(a), b))

RECURSIVE UniqueRange(_, _, _)
UniqueRange(xs, lo, hi) ==
    IF lo > hi THEN <<>>
    ELSE IF lo = hi THEN <<xs[lo]>>
    ELSE LET mid == (lo + hi) \div 2
         IN  MergeUnique(UniqueRange(xs, lo, mid), UniqueRange(xs, mid + 1, hi))

\* variant: the distinct elements in order of first appearance
RECURSIVE FirstSeen(_, _)
FirstSeen(xs, n) ==
    IF n = 0 THEN <<>>
    ELSE LET before == FirstSeen(xs, n - 1)
         IN  IF \E m \in 1..Len(before) : before[m] = xs[n] THEN before ELSE Append(before, xs[n])
NpUniqueUnsorted(xs) == FirstSeen(xs, Len(xs))
\* np.unique: the distinct elements, sorted
NpUnique(xs) == UniqueRange(xs, 1, Len(xs))

\* label_map as the loop over enumerate(unique) leaves it (a later n overwrites)
LabelMap(unique) ==
    [l \in {unique[n] : n \in 1..Len(unique)} |->
        LET n == CHOOSE n \in 1..Len(unique) :
                     /\ unique[n] = l
                     /\ \A m \in 1..Len(unique) : unique[m] = l => m <= n
        IN  [k \in 1..Len(unique) |-> IF k = n THEN 1 ELSE 0]]

\* variant: the vocabulary built row by row
OneHotColPerRow(col) ==
    [i \in 1..Len(col) |->
        LET label_map == LabelMap(NpUnique(col[i]))
        IN  [n \in 1..Len(col[i]) |-> label_map[col[i][n]]]]
\* one_hot(col) for a non-empty column of label sequences
OneHotCol(col) ==
    LET label_map == LabelMap(NpUnique(Flatten(col)))
    IN  [i \in 1..Len(col) |-> [n \in 1..Len(col[i]) |-> label_map[col[i][n]]]]

LabelsCol(table) == [i \in 1..Len(table) |-> table[i]["labels"].val]

\* labels['labels'] = one_hot(labels['labels']); np.hstack of an empty column raises
OneHot ==
    /\ pcL = "labelled"
    /\ IF labels = <<>>
       THEN /\ pcL' = "ValueError"
            /\ encoded' = encoded
       ELSE /\ pcL' = "done"
            /\ LET oh == OneHotCol(LabelsCol(labels))
               IN  encoded' = [i \in 1..Len(labels) |-> WithColumn(labels[i], "labels", Some(oh[i]))]
    /\ UNCHANGED <<dataL, labels, labelOffsets, outL>>
    /\ UNCHANGED varsF
    /\ UNCHANGED config

\* ------------------------------------------------------------ the program
\* rows of the data directory, sorted by recording-id as a Kaldi directory is: with
\* 'segments' several utterances may share a recording; without it there is one
\* row per recording and no label
DirRows(cfg, seg, n) ==
    {t \in [1..n -> [rec : 1..Len(RecOrder),
                     label : IF seg THEN LabelStrings ELSE {<<>>},
                     signal : Signals(cfg)]] :
        \A i, j \in 1..n : i < j => IF seg THEN t[i].rec <= t[j].rec ELSE t[i].rec < t[j].rec}

DirTable(seg, t) ==
    [i \in DOMAIN t |->
        IF seg
        THEN [f \in {"recording-id", "utterance-id", "label", "signal"} |->
                 IF f = "recording-id" THEN RecOrder[t[i].rec]
                 ELSE IF f = "utterance-id" THEN UttNames[i]
                 ELSE IF f = "label" THEN t[i].label ELSE t[i].signal]
        ELSE [f \in {"recording-id", "signal"} |->
                 IF f = "recording-id" THEN RecOrder[t[i].rec] ELSE t[i].signal]]

Init ==
    /\ \E cfg \in Configs, seg \in BOOLEAN, n \in 1..MaxRows :
          /\ n <= Len(UttNames)
          /\ frame_length = cfg.frame_length
          /\ rate = cfg.rate
          /\ \E t \in DirRows(cfg, seg, n) : dir = [segments |-> seg, table |-> DirTable(seg, t)]
    /\ nfilt \in NFilts
    /\ pcF = "start"
    /\ dataF = <<>>
    /\ feats = <<>>
    /\ normed = <<>>
    /\ outF = <<>>
    /\ featSlices = <<>>
    /\ pcL = "start"
    /\ dataL = <<>>
    /\ labels = <<>>
    /\ encoded = <<>>
    /\ labelOffsets = <<>>
    /\ outL = <<>>

Next ==
    \/ FeatsPrepData
    \/ Extract
    \/ Normalize
    \/ NormalizeEmpty
    \/ LabelsPrepData
    \/ GetLabels
    \/ OneHot

Spec == Init /\ [][Next]_vars

\* ======================================================== the properties
ExtractRan == pcF \in {"extracted", "done", "KeyError"}
LabelsRan == pcL \in {"labelled", "done", "ValueError"}
NRows == Len(dir.table)
SigLenOf(i) == dir.table[i]["signal"].len
InputId(i) == RowId(dir.table[i])
\* floor(frame_length * rate) and floor((frame_length + 0.01) * rate)
Stride == (frame_length * rate) \div PadDen
PadFloor == ((frame_length + 1) * rate) \div PadDen
\* offset + (frame_length + 0.01) * rate <= siglen - 2
FitsFrame(siglen, offset) == (offset + 2) * PadDen + (frame_length + 1) * rate <= siglen * PadDen
\* offset < siglen - 1 - floor((frame_length + 0.01) * rate)
ClaimedFits(siglen, offset) == offset < siglen - 1 - PadFloor
HasFrame(i) == FitsFrame(SigLenOf(i), 0)
Has(table, id) == \E k \in 1..Len(table) : RowId(table[k]) = id
Ids(table) == [k \in 1..Len(table) |-> RowId(table[k])]
\* the ids of the input rows that have a frame, in input order
KeptIds == LET all == [i \in 1..NRows |-> [i |-> i, id |-> InputId(i)]]
               kept == SelectSeq(all, LAMBDA x : HasFrame(x.i))
           IN  [k \in 1..Len(kept) |-> kept[k].id]
FeatOffsets(i) == [n \in 1..Len(featSlices[i]) |-> featSlices[i][n].offset]
Increasing(o) == \A n \in 1..Len(o) : o[n] = (n - 1) * Stride
Elems(o) == {o[n] : n \in 1..Len(o)}

\* C1 as stated: the offsets both functions use are exactly the multiples o of the stride
\* with o < signal_length - 1 - floor((frame_length + 0.01) * rate), in increasing order
C1_AsStated ==
    LET Claimed(i) == {k * Stride : k \in {k \in 0..(SigLenOf(i) \div Stride) :
                                              ClaimedFits(SigLenOf(i), k * Stride)}}
    IN  /\ ExtractRan => \A i \in 1..NRows :
               Increasing(FeatOffsets(i)) /\ Elems(FeatOffsets(i)) = Claimed(i)
        /\ LabelsRan => \A i \in 1..NRows :
               Increasing(labelOffsets[i]) /\ Elems(labelOffsets[i]) = Claimed(i)

\* C1 amended: the offsets both _calculate_feats and _generate_label_sequence use are
\* 0, S, 2S, ... with S = floor(frame_length * rate): exactly the multiples o of S with
\* o < int(signal_length - 1 - (frame_length + 0.01) * rate), that is with
\* o + (frame_length + 0.01) * rate <= signal_length - 2
C1_Offsets ==
    LET Exact(i) == {k * Stride : k \in {k \in 0..(SigLenOf(i) \div Stride) :
                                            FitsFrame(SigLenOf(i), k * Stride)}}
    IN  /\ ExtractRan => \A i \in 1..NRows :
               Increasing(FeatOffsets(i)) /\ Elems(FeatOffsets(i)) = Exact(i)
        /\ LabelsRan => \A i \in 1..NRows :
               Increasing(labelOffsets[i]) /\ Elems(labelOffsets[i]) = Exact(i)

\* both functions ran on a row where the padded frame length is not an integer and
\* the stated bound admits offset 0 but the code's does not, beside a row of several frames
C1_Witness ==
    /\ ExtractRan /\ LabelsRan
    /\ ((frame_length + 1) * rate) % PadDen # 0
    /\ \E i \in 1..NRows : ClaimedFits(SigLenOf(i), 0) /\ FeatOffsets(i) = <<>> /\ labelOffsets[i] = <<>>
    /\ \E i \in 1..NRows : Len(FeatOffsets(i)) >= 2 /\ labelOffsets[i] = FeatOffsets(i)

\* C2: a row that survives filtering has as many feature matrices as label values
C2_Alignment ==
    (ExtractRan /\ LabelsRan) =>
        \A a \in 1..Len(feats), b \in 1..Len(labels) :
            RowId(feats[a]) = RowId(labels[b]) =>
                Len(feats[a]["features"].val) = Len(labels[b]["labels"].val)

C2_Witness ==
    /\ ExtractRan /\ LabelsRan
    /\ \E a \in 1..Len(feats), b \in 1..Len(labels) :
          /\ RowId(feats[a]) = RowId(labels[b])
          /\ Len(feats[a]["features"].val) >= 2
    /\ \E a \in 1..Len(feats), b \in 1..Len(labels) :
          /\ RowId(feats[a]) = RowId(labels[b])
          /\ Len(labels[b]["labels"].val) = 1

\* signal_length < (frame_length + 0.01) * rate + 1
BelowThreshold(i) == SigLenOf(i) * PadDen < (frame_length + 1) * rate + PadDen

\* C3: a row below the threshold (frame_length+0.01)*rate + 1 is skipped by extract and
\* by get_labels (no frame, not in the result), and the two skip the same rows
C3_SkipEquivalence ==
    /\ ExtractRan => \A i \in 1..NRows :
           BelowThreshold(i) => featSlices[i] = <<>> /\ ~Has(feats, InputId(i))
    /\ LabelsRan => \A i \in 1..NRows :
           BelowThreshold(i) => labelOffsets[i] = <<>> /\ ~Has(labels, InputId(i))
    /\ (ExtractRan /\ LabelsRan) => \A i \in 1..NRows :
           Has(feats, InputId(i)) <=> Has(labels, InputId(i))

C3_Witness ==
    /\ ExtractRan /\ LabelsRan
    /\ \E i \in 1..NRows :
          BelowThreshold(i) /\ ~Has(feats, InputId(i)) /\ ~Has(labels, InputId(i))
    /\ \E i \in 1..NRows : Has(feats, InputId(i)) /\ Has(labels, InputId(i))

\* ---- one-hot encoding
LabelOfId(id) == dir.table[CHOOSE i \in 1..NRows : InputId(i) = id]["label"]
AllLabels == {dir.table[i]["label"] : i \in 1..NRows}
FramedLabels == {dir.table[i]["label"] : i \in {i \in 1..NRows : HasFrame(i)}}
Vectors(row) == row["labels"].val
IsOneHot(v) ==
    \E k \in 1..Len(v) : v[k] = 1 /\ \A m \in 1..Len(v) : m # k => v[m] = 0
\* a sorts strictly before b, character by character
AlphaBefore(a, b) ==
    \E k \in 1..Len(b) :
        /\ \A j \in 1..(k - 1) : j <= Len(a) /\ a[j] = b[j]
        /\ (k > Len(a) \/ a[k] < b[k])

\* C4 as stated: every encoded vector is one-hot and as long as the number of distinct
\* labels of the whole input dataset, labels of frameless rows included
C4_AsStated ==
    pcL = "done" =>
        \A k \in 1..Len(encoded) : \A n \in 1..Len(Vectors(encoded[k])) :
            /\ IsOneHot(Vectors(encoded[k])[n])
            /\ Len(Vectors(encoded[k])[n]) = Cardinality(AllLabels)

\* C4 amended: every encoded vector has exactly one 1 and 0 elsewhere, and its length is
\* the number of distinct labels of the rows that yield at least one frame (a label that
\* occurs only on rows too short to yield a frame is not counted)
C4_OneHot ==
    pcL = "done" =>
        \A k \in 1..Len(encoded) : \A n \in 1..Len(Vectors(encoded[k])) :
            /\ IsOneHot(Vectors(encoded[k])[n])
            /\ Len(Vectors(encoded[k])[n]) = Cardinality(FramedLabels)

\* encoded: a dataset of two labels, one of them only on a frameless row
C4_Witness ==
    /\ pcL = "done"
    /\ Cardinality(AllLabels) = 2
    /\ Cardinality(FramedLabels) = 1
    /\ \E k \in 1..Len(encoded) : Vectors(encoded[k]) # <<>> /\ Vectors(encoded[k])[1] = <<1>>

Injections(n) == {f \in [1..n -> 1..n] : \A a, b \in 1..n : f[a] = f[b] => a = b}

\* C5: label l gets the vector with its 1 at the 0-based index equal to the number of
\* encoded labels sorting before l; the encoding of a row is the same under every
\* permutation of the rows; with labels speech and non_speech a 3-frame speech row
\* encodes to [[0,1],[0,1],[0,1]]
C5_Alphabetical ==
    pcL = "done" =>
        /\ \A k \in 1..Len(encoded) : \A n \in 1..Len(Vectors(encoded[k])) :
              LET l == LabelOfId(RowId(encoded[k]))
                  idx == Cardinality({m \in FramedLabels : AlphaBefore(m, l)})
              IN  Vectors(encoded[k])[n] =
                      [j \in 1..Cardinality(FramedLabels) |-> IF j = idx + 1 THEN 1 ELSE 0]
        /\ LET col == LabelsCol(labels)
           IN  \A f \in Injections(Len(col)) :
                   OneHotCol([i \in 1..Len(col) |-> col[f[i]]])
                       = [i \in 1..Len(col) |-> Vectors(encoded[f[i]])]
        /\ FramedLabels = {speech, non_speech} =>
              \A k \in 1..Len(encoded) :
                  (LabelOfId(RowId(encoded[k])) = speech /\ Len(Vectors(encoded[k])) = 3)
                      => Vectors(encoded[k]) = <<<<0, 1>>, <<0, 1>>, <<0, 1>>>>

\* a 3-frame speech row encoded ahead of a non_speech row
C5_Witness ==
    /\ pcL = "done"
    /\ Len(encoded) = 2
    /\ LabelOfId(RowId(encoded[1])) = speech
    /\ Vectors(encoded[1]) = <<<<0, 1>>, <<0, 1>>, <<0, 1>>>>
    /\ LabelOfId(RowId(encoded[2])) = non_speech
    /\ Vectors(encoded[2])[1] = <<1, 0>>

\* ---- normalization
\* every feature value of every frame of every row of extract()'s table with this recording-id
Pooled(rec) ==
    LET rows == SelectSeq(feats, LAMBDA r : r["recording-id"] = rec)
    IN  Flatten([i \in 1..Len(rows) |-> MatValues(rows[i]["features"].val)])
AllEqual(xs) == \A a \in 1..Len(xs) : xs[a] = xs[1]
\* (x - mean) / std for the mean and standard deviation of xs, from the sums of xs
ZScore(x, xs) ==
    LET n == Len(xs)
        s1 == SeqSum(xs)
        s2 == SeqSum([a \in 1..n |-> xs[a] * xs[a]])
        top == n * x - s1
    IN  IF n * s2 - s1 * s1 = 0 THEN NaN
        ELSE [sgn |-> IF top > 0 THEN 1 ELSE IF top < 0 THEN -1 ELSE 0,
              sq |-> Rat(top * top, n * s2 - s1 * s1)]
NormOf(k) == normed[k]["normalized-features"]
RawOf(k) == feats[k]["features"].val
Cells(k) == {<<n, j, t>> \in (1..Len(RawOf(k))) \X (1..nfilt) \X (1..1) : TRUE}

\* C6: every normalized value of every row is (raw - mean) / std, mean and std being
\* those of all the feature values of all the rows with the row's own recording-id
C6_Normalization ==
    pcF = "done" =>
        /\ Len(normed) = Len(feats)
        /\ \A k \in 1..Len(normed) :
              /\ RowId(normed[k]) = RowId(feats[k])
              /\ Len(NormOf(k)) = Len(RawOf(k))
              /\ \A c \in Cells(k) :
                    NormOf(k)[c[1]][c[2]][c[3]]
                        = ZScore(RawOf(k)[c[1]][c[2]][c[3]], Pooled(normed[k]["recording-id"]))

\* two recordings normalized, the statistics of the second giving the first other values
C6_Witness ==
    /\ pcF = "done"
    /\ Len(normed) = 2
    /\ normed[1]["recording-id"] # normed[2]["recording-id"]
    /\ ~AllEqual(Pooled(normed[1]["recording-id"]))
    /\ ~AllEqual(Pooled(normed[2]["recording-id"]))
    /\ \E c \in Cells(1) :
          NormOf(1)[c[1]][c[2]][c[3]]
              # ZScore(RawOf(1)[c[1]][c[2]][c[3]], Pooled(normed[2]["recording-id"]))

\* ---- short rows
Warned(id) == {n \in 1..Len(outF) : outF[n] = [msg |-> "too short to extract features", id |-> id]}
LabelWarned(id) == {n \in 1..Len(outL) : outL[n].id = id}

C8_ZeroStd ==
    pcF = "done" =>
        /\ Ids(normed) = Ids(feats)
        /\ \A k \in 1..Len(normed) : \A c \in Cells(k) :
              IF AllEqual(Pooled(normed[k]["recording-id"]))
              THEN NormOf(k)[c[1]][c[2]][c[3]] = NaN
              ELSE IsFinite(NormOf(k)[c[1]][c[2]][c[3]])

\* a recording of equal values normalized beside one of varied values
C8_Witness ==
    /\ pcF = "done"
    /\ Len(normed) = 2
    /\ AllEqual(Pooled(normed[2]["recording-id"]))
    /\ NormOf(2)[1][1][1] = NaN
    /\ ~AllEqual(Pooled(normed[1]["recording-id"]))
    /\ IsFinite(NormOf(1)[1][1][1])

\* ---- frame counts
\* floor(a / b) for b > 0
FloorDiv(a, b) == a \div b

\* C9 as stated: a row with a frame has
\* floor((signal_length - 1 - (frame_length+0.01)*rate) / (frame_length*rate)) + 1 frames
C9_AsStated ==
    LET Claimed(i) == FloorDiv((SigLenOf(i) - 1) * PadDen - (frame_length + 1) * rate,
                               frame_length * rate) + 1
    IN  /\ ExtractRan => \A i \in 1..NRows :
               featSlices[i] # <<>> => Len(featSlices[i]) = Claimed(i)
        /\ LabelsRan => \A i \in 1..NRows :
               labelOffsets[i] # <<>> => Len(labelOffsets[i]) = Claimed(i)

\* C9 amended: a row with a frame has
\* floor((signal_length - 2 - (frame_length+0.01)*rate) / floor(frame_length*rate)) + 1
\* frames, in its feature sequence and in its label sequence; 15 for 80000 samples at
\* rate 16000 and frame_length 0.32
C9_FrameCount ==
    LET Count(i) == FloorDiv((SigLenOf(i) - 2) * PadDen - (frame_length + 1) * rate,
                             Stride * PadDen) + 1
        Example(i) == frame_length = 32 /\ rate = 16000 /\ SigLenOf(i) = 80000
    IN  /\ ExtractRan =>
              /\ \A i \in 1..NRows : featSlices[i] # <<>> => Len(featSlices[i]) = Count(i)
              /\ \A i \in 1..NRows : Example(i) => Len(featSlices[i]) = 15
              /\ \A k \in 1..Len(feats) : \A i \in 1..NRows :
                    RowId(feats[k]) = InputId(i) => Len(feats[k]["features"].val) = Count(i)
        /\ LabelsRan =>
              /\ \A i \in 1..NRows : labelOffsets[i] # <<>> => Len(labelOffsets[i]) = Count(i)
              /\ \A i \in 1..NRows : Example(i) => Len(labelOffsets[i]) = 15
              /\ \A k \in 1..Len(labels) : \A i \in 1..NRows :
                    RowId(labels[k]) = InputId(i) => Len(labels[k]["labels"].val) = Count(i)

\* the 5.00 s row framed by both, beside a row one stride past the bound (one frame)
C9_Witness ==
    /\ ExtractRan /\ LabelsRan
    /\ \E i \in 1..NRows :
          SigLenOf(i) = 80000 /\ rate = 16000 /\ Len(featSlices[i]) = 15 /\ Len(labelOffsets[i]) = 15
    /\ \E i \in 1..NRows :
          /\ (SigLenOf(i) - 1) * PadDen - (frame_length + 1) * rate = frame_length * rate
          /\ Len(featSlices[i]) = 1

\* C10: every slice _calculate_feats analyses, [o, int(o + (frame_length+0.01)*rate)),
\* ends at or before signal_length - 1 and is not cut short by the end of the signal
C10_SliceInside ==
    ExtractRan =>
        \A i \in 1..NRows : \A n \in 1..Len(featSlices[i]) :
            LET f == featSlices[i][n]
            IN  /\ f.end <= SigLenOf(i) - 1
                /\ f.end * PadDen <= f.offset * PadDen + (frame_length + 1) * rate
                /\ (f.end + 1) * PadDen > f.offset * PadDen + (frame_length + 1) * rate
                /\ f.slice.lo = f.offset
                /\ f.slice.hi = f.end
                /\ SliceLen(f.slice) = f.end - f.offset

\* a row of several frames whose last slice ends as late as the bound allows
C10_Witness ==
    /\ ExtractRan
    /\ \E i \in 1..NRows :
          /\ Len(featSlices[i]) >= 2
          /\ featSlices[i][Len(featSlices[i])].end = SigLenOf(i) - 2

====
